---- MODULE Spec2Model ----
(***************************************************************************)
(* Model of src/example_repository.py: export_from_pack_grouped, the       *)
(* bounded-memory repacking loop that moves content-addressed objects from *)
(* one pack store to another and builds the old -> new hashkey mapping.    *)
(*                                                                         *)
(* Objects are named 1..NObj in the order in which the source container    *)
(* yields them (get_objects_stream_and_meta returns objects in its own     *)
(* disk order, not in the order of the hashkeys it is given).  The size of *)
(* every object, the groups and the memory budget are arbitrary.           *)
(***************************************************************************)
EXTENDS Integers, Sequences, FiniteSets, TLC

\* ---------------------------------------------------------------- bounds
NObj == 3
MaxGroups == 2

Objs == 1..NObj
\* declared sizes (meta['size']) an object may have, and memory budgets
Sizes == {0, 10, 30, 50, 100, 500}
Budgets == {50, 100}
\* the runs with shared objects are about the hashkeys, not the sizes
FewSizes == {30, 500}

VARIABLES
    max_memory_usage,            \* the max_memory_usage argument
    writer,                      \* behaviour of the output container: "honest", "wronglen", "failing"
    planner,                     \* "disjoint" or "overlapping" groups of object hashkeys
    groups,                      \* the groups (obj_hashkeys of each chunk) taken so far
    meta,                        \* declared size of every object the source has yielded so far
    pc,                          \* "idle", "iterating", "done", "raised"
    triplets,                    \* objects the open triplets generator has still to yield
    old_obj_hashkeys,
    new_obj_hashkeys,
    content_cache,               \* dict in insertion order: sequence of [key, stream]
    cache_size,
    old_new_obj_hashkey_mapping, \* [bound, map]: unbound until the first group is finished
    output_container,            \* set of [hashkey, content] stored in the output container
    calls,                       \* every add_streamed_objects_to_pack call made so far
    yielded,                     \* the objects yielded so far in the current group, in order
    reads,                       \* how many times each source stream of the current group was read
    err,                         \* the exception that left the function, "none" if none
    plain                        \* what export_from_pack did with the same groups, once it has run

vars == <<max_memory_usage, writer, planner, groups, meta, pc, triplets,
          old_obj_hashkeys, new_obj_hashkeys, content_cache, cache_size,
          old_new_obj_hashkey_mapping, output_container, calls, yielded, reads, err,
          plain>>

\* ------------------------------------------------------------- helpers
Min(S) == CHOOSE x \in S : \A y \in S : x <= y

Range(s) == {s[i] : i \in 1..Len(s)}

\* the bytes of object o: which object's bytes they are, and how many
\* (the source container declares as meta['size'] the number of bytes it holds)
Content(o, size) == [tag |-> o, len |-> size]

\* the hashkey the output container computes from the bytes it is given
HashOf(c) == <<"sha", c.tag, c.len>>

\* the source stream of a triplet: valid only while the generator stands on it
SourceStream(o, size) == [kind |-> "handle", obj |-> o, data |-> Content(o, size)]

\* variants of OwnedCopy: the stream itself is kept (the approach the comment
\* in export_from_pack says does not work); the stream is read once it has
\* already been consumed
RetainedStream(o, size) == SourceStream(o, size)
ExhaustedCopy(o, size) == [kind |-> "bytes", obj |-> o, data |-> Content(o, 0)]

\* io.BytesIO(stream.read()): an owned copy of the bytes, read now
OwnedCopy(o, size) == [kind |-> "bytes", obj |-> o, data |-> Content(o, size)]

\* variant of TooBig: >= in place of >
AtLeastBudget(size) == size >= max_memory_usage

\* meta['size'] > max_memory_usage
TooBig(size) == size > max_memory_usage

\* variants of WouldOverflow: the first test repeated; >= in place of >
RepeatsTooBig(csize, size) == size > max_memory_usage
WouldReach(csize, size) == csize + size >= max_memory_usage

\* variant of WouldOverflow: the size of the incoming object is left out
OverflowsAlready(csize, size) == csize > max_memory_usage

\* cache_size + meta['size'] > max_memory_usage
WouldOverflow(csize, size) == csize + size > max_memory_usage

\* variant of DictSet: a new key goes first
DictSetFirst(cache, key, stream) ==
    IF \E i \in 1..Len(cache) : cache[i].key = key
    THEN [i \in 1..Len(cache) |->
            IF cache[i].key = key THEN [key |-> key, stream |-> stream] ELSE cache[i]]
    ELSE <<[key |-> key, stream |-> stream]>> \o cache

\* content_cache[key] = stream: a new key goes last, an old key keeps its place
DictSet(cache, key, stream) ==
    IF \E i \in 1..Len(cache) : cache[i].key = key
    THEN [i \in 1..Len(cache) |->
            IF cache[i].key = key THEN [key |-> key, stream |-> stream] ELSE cache[i]]
    ELSE Append(cache, [key |-> key, stream |-> stream])

\* the two lists built from content_cache.items()
CacheKeys(cache) == [i \in 1..Len(cache) |-> cache[i].key]
\* variant of CacheStreams: the streams are listed in another order than the keys
CacheStreamsBackwards(cache) == [i \in 1..Len(cache) |-> cache[Len(cache) + 1 - i].stream]
CacheStreams(cache) == [i \in 1..Len(cache) |-> cache[i].stream]

\* variant of DirectBatch: the cached streams are submitted along with the stream
DirectBatchWithCache(o, size) ==
    CacheStreams(content_cache) \o <<SourceStream(o, size)>>

\* [stream]: the list a direct write submits
DirectBatch(o, size) == <<SourceStream(o, size)>>

\* variant of Grow: cache_size = meta['size'] in place of +=
Overwritten(csize, size) == size

\* cache_size += meta['size']
Grow(csize, size) == csize + size

\* variant of Emptied: the cache keeps what it holds
NotEmptied(cache) == cache

\* content_cache = {}
Emptied(cache) == <<>>

\* variant of Extend: the list is left as it was
NotExtended(list, temp) == list

\* old_obj_hashkeys += temp_old_hashkeys ; new_obj_hashkeys += temp_new_hashkeys
Extend(list, temp) == list \o temp

\* dict(zip(olds, news)): pairs up to the shorter list, a later pair wins
ZipLen(olds, news) == IF Len(olds) <= Len(news) THEN Len(olds) ELSE Len(news)
DictZip(olds, news) ==
    [k \in {olds[i] : i \in 1..ZipLen(olds, news)} |->
        news[CHOOSE i \in 1..ZipLen(olds, news) :
                /\ olds[i] = k
                /\ \A j \in 1..ZipLen(olds, news) : olds[j] = k => j <= i]]

\* ------------------------------------------- the output container (Pack Writer)
\* add_streamed_objects_to_pack(stream_list): reads every stream once, stores
\* the bytes under their hashkey and returns the hashkeys in input order.
\* `at` is the object the triplets generator stands on (0: exhausted).
Stale(stream_list, at) ==
    \E i \in 1..Len(stream_list) :
        stream_list[i].kind = "handle" /\ stream_list[i].obj # at

HonestKeys(stream_list) ==
    [i \in 1..Len(stream_list) |-> HashOf(stream_list[i].data)]

Stored(stream_list) ==
    {[hashkey |-> HashOf(s.data), content |-> s.data] : s \in Range(stream_list)}

WriterOutcomes(stream_list, at) ==
    IF Stale(stream_list, at)
    THEN {[err |-> "ValueError", keys |-> <<>>]}     \* read of a closed stream
    ELSE {[err |-> "none", keys |-> HonestKeys(stream_list)]}
         \cup (IF writer = "failing"
                THEN {[err |-> "WriteFailure", keys |-> <<>>]} ELSE {})
         \cup (IF writer = "wronglen"
                THEN {[err |-> "none",
                       keys |-> Append(HonestKeys(stream_list), <<"sha", 0, 0>>)]}
                     \cup (IF stream_list = <<>> THEN {}
                           ELSE {[err |-> "none",
                                  keys |-> SubSeq(HonestKeys(stream_list), 1,
                                                  Len(stream_list) - 1)]})
                ELSE {})

\* number of source streams of object x the writer reads in this batch
HandleReads(stream_list, x) ==
    Cardinality({i \in 1..Len(stream_list) :
                    stream_list[i].kind = "handle" /\ stream_list[i].obj = x})

\* one call, as the log keeps it: the objects of the batch in the order
\* submitted, the object the generator stood on, how many hashkeys came back
CallRec(kind, stream_list, trigger, out) ==
    [kind |-> kind, group |-> Len(groups), ok |-> out.err = "none",
     trigger |-> trigger, returned |-> Len(out.keys),
     batch |-> [i \in 1..Len(stream_list) |-> stream_list[i].obj]]

\* what every call leaves behind, whatever the caller does with the result
Called(out, kind, stream_list, trigger) ==
    /\ calls' = Append(calls, CallRec(kind, stream_list, trigger, out))
    /\ output_container' = IF out.err = "none"
                            THEN output_container \cup Stored(stream_list)
                            ELSE output_container

\* variant of Uncaught: the exception is swallowed and the loop goes on
Swallowed(e) == "iterating"

\* no try/except anywhere in the function: an exception leaves it
Uncaught(e) == "raised"

Raise(e) == pc' = Uncaught(e) /\ err' = e

\* --------------------------------------------------------------- actions
\* variant of Triplets: objects exported by an earlier group are left out
TripletsNotYetExported(obj_hashkeys) == obj_hashkeys \ UNION Range(groups)

\* the objects the triplets generator yields for a chunk's obj_hashkeys:
\* each hashkey asked for, once
Triplets(obj_hashkeys) == obj_hashkeys

\* the size the source container declares for o (fixed once it has been seen)
SizeOf(o) ==
    IF o \in DOMAIN meta THEN {meta[o]}
    ELSE IF planner = "overlapping" THEN FewSizes ELSE Sizes

\* the generator yields its next triplet (old_obj_hashkey, stream, meta)
Yield(o, size) ==
    /\ pc = "iterating"
    /\ triplets # {}
    /\ o = Min(triplets)
    /\ size \in SizeOf(o)
    /\ triplets' = triplets \ {o}
    /\ yielded' = Append(yielded, o)
    /\ meta' = IF o \in DOMAIN meta THEN meta ELSE meta @@ (o :> size)

\* for idx, node_uuids_chunk in enumerate(node_uuids_groups): open the generator
StartGroup(chunk) ==
    /\ pc = "idle"
    /\ Len(groups) < MaxGroups
    /\ planner = "disjoint" => chunk \cap UNION Range(groups) = {}
    /\ groups' = Append(groups, chunk)
    /\ triplets' = Triplets(chunk)
    /\ old_obj_hashkeys' = <<>>
    /\ new_obj_hashkeys' = <<>>
    /\ content_cache' = Emptied(content_cache)
    /\ cache_size' = 0
    /\ yielded' = <<>>
    /\ reads' = [x \in Objs |-> 0]
    /\ pc' = "iterating"
    /\ UNCHANGED <<plain, max_memory_usage, writer, planner, meta,
                   old_new_obj_hashkey_mapping, output_container, calls, err>>

\* if meta['size'] > max_memory_usage: write the stream directly
DirectWrite(o, size) ==
    /\ Yield(o, size)
    /\ TooBig(size)
    /\ old_obj_hashkeys' = Append(old_obj_hashkeys, o)
    /\ \E out \in WriterOutcomes(DirectBatch(o, size), o) :
          /\ Called(out, "direct", DirectBatch(o, size), o)
          /\ IF out.err # "none"
             THEN /\ Raise(out.err)
                  /\ UNCHANGED <<new_obj_hashkeys, reads>>
             ELSE /\ reads' = [reads EXCEPT ![o] = @ + 1]
                  /\ IF out.keys = <<>>           \* [...][0] of an empty list
                     THEN Raise("IndexError") /\ UNCHANGED new_obj_hashkeys
                     ELSE /\ new_obj_hashkeys' = Append(new_obj_hashkeys, out.keys[1])
                          /\ UNCHANGED <<pc, err>>
    /\ UNCHANGED <<plain, max_memory_usage, writer, planner, groups, content_cache,
                   cache_size, old_new_obj_hashkey_mapping>>

\* elif cache_size + meta['size'] > max_memory_usage: flush the cache, then
\* put the object in the emptied cache
FlushThenBuffer(o, size) ==
    /\ Yield(o, size)
    /\ ~TooBig(size)
    /\ WouldOverflow(cache_size, size)
    /\ \E out \in WriterOutcomes(CacheStreams(content_cache), o) :
          /\ Called(out, "flush", CacheStreams(content_cache), o)
          /\ IF out.err # "none"
             THEN /\ Raise(out.err)
                  /\ UNCHANGED <<old_obj_hashkeys, new_obj_hashkeys, content_cache,
                                 cache_size, reads>>
             ELSE /\ old_obj_hashkeys' = Extend(old_obj_hashkeys, CacheKeys(content_cache))
                  /\ new_obj_hashkeys' = Extend(new_obj_hashkeys, out.keys)
                  /\ content_cache' = DictSet(Emptied(content_cache), o, OwnedCopy(o, size))
                  /\ cache_size' = Grow(0, size)
                  /\ reads' = [x \in Objs |->
                                 reads[x] + HandleReads(CacheStreams(content_cache), x)
                                 + (IF x = o /\ OwnedCopy(o, size).kind = "bytes"
                                    THEN 1 ELSE 0)]
                  /\ UNCHANGED <<pc, err>>
    /\ UNCHANGED <<plain, max_memory_usage, writer, planner, groups,
                   old_new_obj_hashkey_mapping>>

\* else: read the object into the cache
Buffer(o, size) ==
    /\ Yield(o, size)
    /\ ~TooBig(size)
    /\ ~WouldOverflow(cache_size, size)
    /\ content_cache' = DictSet(content_cache, o, OwnedCopy(o, size))
    /\ cache_size' = Grow(cache_size, size)
    /\ reads' = [reads EXCEPT ![o] = @ + (IF OwnedCopy(o, size).kind = "bytes"
                                           THEN 1 ELSE 0)]
    /\ UNCHANGED <<plain, max_memory_usage, writer, planner, groups, pc, old_obj_hashkeys,
                   new_obj_hashkeys, old_new_obj_hashkey_mapping, output_container,
                   calls, err>>

\* variant of SubmitsFinal: an empty batch is not submitted
SkipsEmptyBatch(stream_list) == stream_list # <<>>

\* the final flush calls add_streamed_objects_to_pack whatever the cache holds
SubmitsFinal(stream_list) == TRUE

\* the for loop is finished: flush the cache, build this group's mapping
FinalFlush ==
    /\ pc = "iterating"
    /\ triplets = {}
    /\ IF SubmitsFinal(CacheStreams(content_cache))
       THEN \E out \in WriterOutcomes(CacheStreams(content_cache), 0) :
              /\ Called(out, "final", CacheStreams(content_cache), 0)
              /\ IF out.err # "none"
                 THEN /\ Raise(out.err)
                      /\ UNCHANGED <<old_obj_hashkeys, new_obj_hashkeys, content_cache,
                                     cache_size, old_new_obj_hashkey_mapping, reads>>
                 ELSE /\ old_obj_hashkeys' =
                             Extend(old_obj_hashkeys, CacheKeys(content_cache))
                      /\ new_obj_hashkeys' = Extend(new_obj_hashkeys, out.keys)
                      /\ content_cache' = Emptied(content_cache)
                      /\ cache_size' = 0
                      /\ reads' = [x \in Objs |->
                                     reads[x] + HandleReads(CacheStreams(content_cache), x)]
                      /\ old_new_obj_hashkey_mapping' =
                             [bound |-> TRUE,
                              map |-> DictZip(old_obj_hashkeys', new_obj_hashkeys')]
                      /\ pc' = "idle"
                      /\ UNCHANGED err
       ELSE /\ old_obj_hashkeys' = Extend(old_obj_hashkeys, CacheKeys(content_cache))
            /\ content_cache' = Emptied(content_cache)
            /\ cache_size' = 0
            /\ old_new_obj_hashkey_mapping' =
                   [bound |-> TRUE,
                    map |-> DictZip(old_obj_hashkeys', new_obj_hashkeys)]
            /\ pc' = "idle"
            /\ UNCHANGED <<new_obj_hashkeys, reads, calls, output_container, err>>
    /\ UNCHANGED <<plain, max_memory_usage, writer, planner, groups, meta, triplets, yielded>>

\* node_uuids_groups is exhausted: return output_container, old_new_obj_hashkey_mapping
Return ==
    /\ pc = "idle"
    /\ old_new_obj_hashkey_mapping.bound
    /\ pc' = "done"
    /\ UNCHANGED <<plain, max_memory_usage, writer, planner, groups, meta, triplets,
                   old_obj_hashkeys, new_obj_hashkeys, content_cache, cache_size,
                   old_new_obj_hashkey_mapping, output_container, calls, yielded,
                   reads, err>>

\* ... with no group at all the name returned was never assigned
ReturnUnbound ==
    /\ pc = "idle"
    /\ ~old_new_obj_hashkey_mapping.bound
    /\ Raise("UnboundLocalError")
    /\ UNCHANGED <<plain, max_memory_usage, writer, planner, groups, meta, triplets,
                   old_obj_hashkeys, new_obj_hashkeys, content_cache, cache_size,
                   old_new_obj_hashkey_mapping, output_container, calls, yielded,
                   reads>>

\* ------------------------------------------------------- export_from_pack
\* the triplets of a chunk in the order the generator yields them
RECURSIVE YieldOrder(_)
YieldOrder(objs) ==
    IF objs = {} THEN <<>>
    ELSE <<Min(objs)>> \o YieldOrder(objs \ {Min(objs)})

\* variant of OneByOne: the streams are collected and written after the loop,
\* the approach the comment in export_from_pack says does not work
CollectedFirst(o) == 0

\* the object the generator stands on when the stream of o is written:
\* add_streamed_objects_to_pack([stream]) is called inside the loop
OneByOne(o) == o

\* the for loop over the triplets of one chunk: one call for each object
RECURSIVE PlainLoop(_, _)
PlainLoop(order, st) ==
    IF order = <<>> \/ st.err # "none" THEN st
    ELSE LET o == Head(order)
             stream_list == <<SourceStream(o, meta[o])>>
             out == CHOOSE x \in WriterOutcomes(stream_list, OneByOne(o)) : TRUE
         IN  IF out.err # "none"
             THEN [st EXCEPT !.err = out.err]
             ELSE PlainLoop(Tail(order),
                            [st EXCEPT !.old_obj_hashkeys = Append(@, o),
                                       !.new_obj_hashkeys = Append(@, out.keys[1]),
                                       !.output_container = @ \cup Stored(stream_list),
                                       !.calls = @ + 1])

\* the loop over node_uuids_groups: the lists start empty in each chunk and
\* the mapping is built anew from them at the end of each chunk
RECURSIVE PlainGroups(_, _)
PlainGroups(gs, st) ==
    IF gs = <<>> \/ st.err # "none" THEN st
    ELSE LET done == PlainLoop(YieldOrder(Triplets(Head(gs))),
                               [st EXCEPT !.old_obj_hashkeys = <<>>,
                                          !.new_obj_hashkeys = <<>>])
         IN  IF done.err # "none" THEN done
             ELSE PlainGroups(Tail(gs),
                              [done EXCEPT !.old_new_obj_hashkey_mapping =
                                  [bound |-> TRUE,
                                   map |-> DictZip(done.old_obj_hashkeys,
                                                   done.new_obj_hashkeys)]])

NotRun ==
    [pc |-> "idle", err |-> "none", calls |-> 0, output_container |-> {},
     old_obj_hashkeys |-> <<>>, new_obj_hashkeys |-> <<>>,
     old_new_obj_hashkey_mapping |-> [bound |-> FALSE, map |-> <<>>]]

\* export_from_pack(extract_to, source_repo, node_uuids_groups), from its
\* first line to its return
ExportFromPackResult(gs) ==
    LET st == PlainGroups(gs, NotRun)
    IN  IF st.err # "none" THEN [st EXCEPT !.pc = Uncaught(st.err)]
        ELSE IF ~st.old_new_obj_hashkey_mapping.bound
             THEN [st EXCEPT !.pc = Uncaught("UnboundLocalError"),
                             !.err = "UnboundLocalError"]
             ELSE [st EXCEPT !.pc = "done"]

\* export_from_pack is run on the groups that export_from_pack_grouped was
\* given, against the same source container and an output container of its own
ExportFromPack ==
    /\ pc \in {"done", "raised"}
    /\ plain.pc = "idle"
    /\ plain' = ExportFromPackResult(groups)
    /\ UNCHANGED <<max_memory_usage, writer, planner, groups, meta, pc, triplets,
                   old_obj_hashkeys, new_obj_hashkeys, content_cache, cache_size,
                   old_new_obj_hashkey_mapping, output_container, calls, yielded,
                   reads, err>>

InitWith(w, p) ==
    /\ max_memory_usage \in Budgets
    /\ writer = w
    /\ planner = p
    /\ groups = <<>>
    /\ meta = <<>>
    /\ pc = "idle"
    /\ triplets = {}
    /\ old_obj_hashkeys = <<>>
    /\ new_obj_hashkeys = <<>>
    /\ content_cache = <<>>
    /\ cache_size = 0
    /\ old_new_obj_hashkey_mapping = [bound |-> FALSE, map |-> <<>>]
    /\ output_container = {}
    /\ calls = <<>>
    /\ yielded = <<>>
    /\ reads = [x \in Objs |-> 0]
    /\ err = "none"
    /\ plain = NotRun

\* the output container keeps its contract, the chunks share no object
Init == InitWith("honest", "disjoint")
\* two chunks of nodes may hold the same object
InitOverlap == InitWith("honest", "overlapping")
\* the output container may return a list of the wrong length
InitLen == InitWith("wronglen", "disjoint")
\* a call of the output container may fail
InitFail == InitWith("failing", "disjoint")

Next ==
    \/ \E chunk \in SUBSET Objs : StartGroup(chunk)
    \/ \E o \in Objs, size \in Sizes : DirectWrite(o, size)
    \/ \E o \in Objs, size \in Sizes : FlushThenBuffer(o, size)
    \/ \E o \in Objs, size \in Sizes : Buffer(o, size)
    \/ FinalFlush
    \/ Return
    \/ ReturnUnbound

Spec == Init /\ [][Next]_vars
SpecOverlap == InitOverlap /\ [][Next]_vars
SpecLen == InitLen /\ [][Next]_vars
SpecFail == InitFail /\ [][Next]_vars

\* the body of "for ... in triplets" and the code after it: once a group is
\* open the interpreter runs them to the end, nothing in them waits
GroupStep ==
    \/ \E o \in Objs, size \in Sizes : DirectWrite(o, size)
    \/ \E o \in Objs, size \in Sizes : FlushThenBuffer(o, size)
    \/ \E o \in Objs, size \in Sizes : Buffer(o, size)
    \/ FinalFlush

\* both exporters, one after the other
NextBoth ==
    \/ Next
    \/ ExportFromPack
SpecBoth == Init /\ [][NextBoth]_vars

SpecLive == Init /\ [][Next]_vars /\ WF_vars(GroupStep)

\* ---------------------------------------------------------------- claims
AllObjs == UNION Range(groups)

\* the calls made for group g, in order
GroupCalls(g) == SelectSeq(calls, LAMBDA c : c.group = g)
Kinds(cs) == {cs[i].kind : i \in 1..Len(cs)}

\* C1: when the function has returned after any sequence of pairwise-disjoint
\* groups, the mapping it returns has an entry for every object of every group.
C1_MappingCoversAllGroups ==
    pc = "done" => DOMAIN old_new_obj_hashkey_mapping.map = AllObjs

\* C2: cache_size never exceeds max_memory_usage, and no object whose declared
\* size exceeds max_memory_usage is ever in content_cache.
C2_BudgetInvariant ==
    /\ cache_size <= max_memory_usage
    /\ \A i \in 1..Len(content_cache) :
          meta[content_cache[i].key] <= max_memory_usage

\* a full cache of several objects, in a group that also had a direct write
C2_Witness ==
    /\ pc = "iterating"
    /\ cache_size = max_memory_usage
    /\ Len(content_cache) >= 2
    /\ "direct" \in Kinds(GroupCalls(Len(groups)))

\* C3: old_obj_hashkeys and new_obj_hashkeys have the same length, and the
\* i-th new hashkey is the one the output container returned for the bytes of
\* the object whose old hashkey is the i-th (the container keeping its contract).
C3_PositionalCorrespondence ==
    /\ Len(old_obj_hashkeys) = Len(new_obj_hashkeys)
    /\ \A i \in 1..Len(old_obj_hashkeys) :
          i <= Len(new_obj_hashkeys) =>
            new_obj_hashkeys[i] =
                HashOf(Content(old_obj_hashkeys[i], meta[old_obj_hashkeys[i]]))

\* a finished group whose three objects were recorded by a direct write, a
\* flush and the final flush
C3_Witness ==
    /\ pc = "idle"
    /\ Len(old_obj_hashkeys) = 3
    /\ Len(new_obj_hashkeys) = 3
    /\ Kinds(GroupCalls(Len(groups))) = {"direct", "flush", "final"}

\* C4: for every pair (old, new) of the returned mapping, the object stored
\* under new in the output container has as many bytes as old's declared size.
C4_SizePreservation ==
    pc = "done" =>
      \A o \in DOMAIN old_new_obj_hashkey_mapping.map :
        /\ \E rec \in output_container :
              rec.hashkey = old_new_obj_hashkey_mapping.map[o]
        /\ \A rec \in output_container :
              rec.hashkey = old_new_obj_hashkey_mapping.map[o]
                => rec.content.len = meta[o]

\* a returned mapping of three non-empty objects, one for each of the three paths
C4_Witness ==
    /\ pc = "done"
    /\ Cardinality(DOMAIN old_new_obj_hashkey_mapping.map) = 3
    /\ \A o \in DOMAIN old_new_obj_hashkey_mapping.map : meta[o] > 0
    /\ \E i, j, k \in 1..Len(calls) :
          /\ calls[i].group = Len(groups) /\ calls[i].kind = "direct"
          /\ calls[j].group = Len(groups) /\ calls[j].kind = "flush"
          /\ calls[k].group = Len(groups) /\ calls[k].kind = "final"
          /\ calls[k].batch # <<>>

\* C5: within a group no object is yielded twice, the source stream of every
\* object yielded has been read exactly once by the end of its own step, and no
\* source stream is read once the generator has moved on.
C5_SinglePass ==
    /\ err # "ValueError"
    /\ \A i, j \in 1..Len(yielded) : yielded[i] = yielded[j] => i = j
    /\ \A o \in Objs :
          reads[o] = IF o \in Range(yielded) THEN 1 ELSE 0

\* three objects of a group consumed on the three paths, each stream read once
C5_Witness ==
    /\ pc = "iterating"
    /\ Len(yielded) = 3
    /\ \A o \in Range(yielded) : reads[o] = 1
    /\ Kinds(GroupCalls(Len(groups))) = {"direct", "flush"}
    /\ Len(content_cache) = 1

\* group g has been processed to its end
Finished(g) == g < Len(groups) \/ (g = Len(groups) /\ pc \in {"idle", "done"})

\* the batches of calls cs, in order
Batches(cs) == [i \in 1..Len(cs) |-> cs[i].batch]

\* C6 as claimed: no final flush submits an empty batch, so that an empty group
\* makes no call at all and a group of one object larger than the budget makes
\* exactly one call, with that object.
C6_NoCallOnEmptyCache ==
    /\ \A i \in 1..Len(calls) : calls[i].kind = "final" => calls[i].batch # <<>>
    /\ \A g \in 1..Len(groups) :
          Finished(g) =>
            /\ groups[g] = {} => GroupCalls(g) = <<>>
            /\ \A x \in Objs :
                  groups[g] = {x} /\ TooBig(meta[x])
                    => Batches(GroupCalls(g)) = << <<x>> >>

\* C6 as amended: every finished group ends with exactly one final-flush call,
\* made whatever the cache holds; an empty group makes that one call, with an
\* empty batch, and records nothing; a group of one object larger than the
\* budget makes two calls, the direct write of [x] and the empty final flush.
C6_FinalFlushAlwaysCalls ==
    \A g \in 1..Len(groups) :
      Finished(g) =>
        /\ Len(GroupCalls(g)) >= 1
        /\ \A i \in 1..Len(GroupCalls(g)) :
              GroupCalls(g)[i].kind = "final" <=> i = Len(GroupCalls(g))
        /\ groups[g] = {} =>
              /\ Batches(GroupCalls(g)) = << <<>> >>
              /\ g = Len(groups) =>
                    /\ old_obj_hashkeys = <<>>
                    /\ new_obj_hashkeys = <<>>
                    /\ DOMAIN old_new_obj_hashkey_mapping.map = {}
        /\ \A x \in Objs :
              groups[g] = {x} /\ TooBig(meta[x]) =>
                /\ Batches(GroupCalls(g)) = << <<x>>, <<>> >>
                /\ GroupCalls(g)[1].kind = "direct"

\* an empty group and a group of one object of size 500 under budget 100, both finished
C6_Witness ==
    /\ pc = "done"
    /\ max_memory_usage = 100
    /\ Len(groups) = 2
    /\ groups[1] = {}
    /\ \E x \in Objs : groups[2] = {x} /\ meta[x] = 500

\* how many calls that returned submitted object o
TimesSubmitted(o) ==
    Cardinality({i \in 1..Len(calls) : calls[i].ok /\ o \in Range(calls[i].batch)})
\* how many finished groups hold object o
TimesGrouped(o) == Cardinality({g \in 1..Len(groups) : Finished(g) /\ o \in groups[g]})

C8_LengthMismatchFails ==
    /\ \A i \in 1..Len(calls) :
          calls[i].ok /\ calls[i].returned # Len(calls[i].batch)
            => err = "LengthMismatch"
    /\ pc = "done" =>
          \A o \in DOMAIN old_new_obj_hashkey_mapping.map :
            old_new_obj_hashkey_mapping.map[o] = HashOf(Content(o, meta[o]))

\* what the code does with a short result: a flush of two objects got one
\* hashkey back, and the function returned a mapping that gives an object the
\* hashkey of another object's bytes
C8_SilentMisalignment ==
    /\ pc = "done"
    /\ err = "none"
    /\ \E i \in 1..Len(calls) :
          calls[i].kind = "flush" /\ Len(calls[i].batch) = 2 /\ calls[i].returned = 1
    /\ \E o, x \in DOMAIN old_new_obj_hashkey_mapping.map :
          /\ o # x
          /\ old_new_obj_hashkey_mapping.map[o] = HashOf(Content(x, meta[x]))

RECURSIVE Flatten(_)
Flatten(ss) == IF ss = <<>> THEN <<>> ELSE Head(ss) \o Flatten(Tail(ss))

\* the calls of group g that submit the cache
CacheCalls(g) == SelectSeq(GroupCalls(g), LAMBDA c : c.kind \in {"flush", "final"})
\* the objects of the current group that fit the budget, in arrival order
Fitting == SelectSeq(yielded, LAMBDA o : ~TooBig(meta[o]))
YieldedSizes == [i \in 1..Len(yielded) |-> meta[yielded[i]]]

\* C9: in a group, the batches submitted from the cache, followed by what the
\* cache still holds, are the objects that fit the budget cut into consecutive
\* pieces in arrival order; a flush is never empty and the object that
\* triggered it is the first of the next batch.  Budget 100: sizes 30, 30, 50
\* give the batches [A,B] and [C]; sizes 10, 10, 10 give no flush and the one
\* final batch [D,E,F].
C9_BatchPartition ==
    Len(groups) >= 1 =>
      LET cc == CacheCalls(Len(groups))
          NextBatch(i) == IF i < Len(cc) THEN cc[i + 1].batch
                          ELSE CacheKeys(content_cache)
      IN  /\ Flatten(Batches(cc)) \o CacheKeys(content_cache) = Fitting
          /\ \A i \in 1..Len(cc) :
                cc[i].kind = "flush" =>
                  /\ cc[i].batch # <<>>
                  /\ NextBatch(i) # <<>>
                  /\ Head(NextBatch(i)) = cc[i].trigger
          /\ (max_memory_usage = 100 /\ pc = "idle" /\ YieldedSizes = <<30, 30, 50>>)
                => Batches(GroupCalls(Len(groups)))
                     = << <<yielded[1], yielded[2]>>, <<yielded[3]>> >>
          /\ (max_memory_usage = 100 /\ pc = "idle" /\ YieldedSizes = <<10, 10, 10>>)
                => /\ Batches(GroupCalls(Len(groups))) = <<yielded>>
                   /\ Kinds(GroupCalls(Len(groups))) = {"final"}

\* budget 100, sizes 30, 30, 50: the group has been flushed as [A,B] then [C]
C9_Witness ==
    /\ max_memory_usage = 100
    /\ pc = "idle"
    /\ YieldedSizes = <<30, 30, 50>>
    /\ Len(GroupCalls(Len(groups))) = 2
    /\ GroupCalls(Len(groups))[1].kind = "flush"
    /\ GroupCalls(Len(groups))[1].trigger = yielded[3]

\* C10: once a call of the output container has failed, the function has been
\* left by that exception, and it makes no further call, reads no further
\* stream and takes no further triplet.
C10_FailurePropagates ==
    /\ [](err = "WriteFailure" => pc = "raised")
    /\ [][err = "WriteFailure"
            => calls' = calls /\ reads' = reads /\ yielded' = yielded
               /\ triplets' = triplets]_vars

\* a flush failed while the group still had objects to yield
C10_Witness ==
    /\ err = "WriteFailure"
    /\ pc = "raised"
    /\ calls[Len(calls)].kind = "flush"
    /\ ~calls[Len(calls)].ok
    /\ triplets # {}

\* ---- one step of the loop, seen from outside (for the claims on single steps)
\* a triplet is taken in this step, and which one
Arrived == Len(yielded') = Len(yielded) + 1
Arriving == yielded'[Len(yielded')]
\* the step makes one call of the given kind
Took(kind) == Len(calls') = Len(calls) + 1 /\ calls'[Len(calls')].kind = kind
\* the step makes no call and puts one more entry in the cache
OnlyBuffered == calls' = calls /\ Len(content_cache') = Len(content_cache) + 1

\* C11: for every object taken, the step is a direct write iff its size exceeds
\* the budget; otherwise a flush-then-buffer iff the cache holds an entry and
\* cache_size + size exceeds the budget; otherwise a plain buffer.  No flush
\* is ever made of a cache that holds nothing.
C11_DecisionRule ==
    [][Arrived =>
         LET size == meta'[Arriving]
             flushes == /\ size <= max_memory_usage
                        /\ content_cache # <<>>
                        /\ cache_size + size > max_memory_usage
         IN  /\ Took("direct") <=> size > max_memory_usage
             /\ Took("flush") <=> flushes
             /\ OnlyBuffered <=> (size <= max_memory_usage /\ ~flushes)
             /\ Took("flush") => calls'[Len(calls')].batch # <<>>]_vars

\* a group whose first object was buffered, whose second was written directly
\* and whose third flushed the first
C11_Witness ==
    /\ pc = "iterating"
    /\ Len(yielded) = 3
    /\ Len(GroupCalls(Len(groups))) = 2
    /\ GroupCalls(Len(groups))[1].kind = "direct"
    /\ GroupCalls(Len(groups))[1].trigger = yielded[2]
    /\ GroupCalls(Len(groups))[2].kind = "flush"
    /\ GroupCalls(Len(groups))[2].batch = <<yielded[1]>>
    /\ CacheKeys(content_cache) = <<yielded[3]>>

\* C12: a direct write submits a batch of exactly one stream, that of the
\* object taken, and leaves content_cache and cache_size as they were, also
\* when the cache holds entries.
C12_DirectLeavesCache ==
    [][Arrived /\ Took("direct") =>
         /\ calls'[Len(calls')].batch = <<Arriving>>
         /\ content_cache' = content_cache
         /\ cache_size' = cache_size]_vars

\* a direct write has just been made past a cache of two entries
C12_Witness ==
    /\ calls # <<>>
    /\ calls[Len(calls)].kind = "direct"
    /\ calls[Len(calls)].ok
    /\ Len(yielded) = 3
    /\ calls[Len(calls)].trigger = yielded[3]
    /\ CacheKeys(content_cache) = <<yielded[1], yielded[2]>>
    /\ cache_size > 0

\* the object taken in this step has a size equal to the budget
ExactBudget == Arrived /\ meta'[Arriving] = max_memory_usage

\* C13 (as stated): an object of size = max_memory_usage is never written
\* directly, is buffered without a flush only if the cache holds no entry, and
\* triggers flush-then-buffer whenever the cache holds at least one entry,
\* zero-size entries included.
C13_ExactBudgetFlushesAnyEntry ==
    [][ExactBudget =>
         /\ ~Took("direct")
         /\ OnlyBuffered => content_cache = <<>>
         /\ content_cache # <<>> => Took("flush")]_vars

\* C13 (amended): an object of size = max_memory_usage is never written
\* directly; it is buffered without a flush iff cache_size = 0 (no entry, or
\* zero-size entries only) and triggers flush-then-buffer iff cache_size > 0.
C13_ExactBudgetFlushesNonZeroCache ==
    [][ExactBudget =>
         /\ ~Took("direct")
         /\ OnlyBuffered <=> cache_size = 0
         /\ Took("flush") <=> cache_size > 0
         /\ cache_size = 0 <=>
              \A i \in 1..Len(content_cache) : meta[content_cache[i].key] = 0]_vars

\* an exact-budget object sits in the cache behind a zero-size one, and the
\* group has made no call
C13_Witness ==
    /\ pc = "iterating"
    /\ Len(yielded) = 2
    /\ meta[yielded[1]] = 0
    /\ meta[yielded[2]] = max_memory_usage
    /\ CacheKeys(content_cache) = <<yielded[1], yielded[2]>>
    /\ GroupCalls(Len(groups)) = <<>>

\* the sum of the content lengths of the entries of a cache
RECURSIVE ContentLength(_)
ContentLength(cache) ==
    IF cache = <<>> THEN 0
    ELSE Head(cache).stream.data.len + ContentLength(Tail(cache))

\* the last call made, and whether the last step was a flush-then-buffer
LastCall == calls[Len(calls)]
JustFlushed ==
    /\ pc = "iterating"
    /\ calls # <<>>
    /\ yielded # <<>>
    /\ LastCall.kind = "flush"
    /\ LastCall.group = Len(groups)
    /\ LastCall.trigger = yielded[Len(yielded)]

\* C14: cache_size is the sum of the content lengths of the entries that
\* content_cache holds, in every state; a flush brings it to 0: after a
\* flush-then-buffer the cache holds the triggering object alone and
\* cache_size is its length, after the final flush the cache is empty and
\* cache_size is 0.
C14_CacheAccounting ==
    /\ cache_size = ContentLength(content_cache)
    /\ JustFlushed =>
          /\ CacheKeys(content_cache) = <<LastCall.trigger>>
          /\ cache_size = meta[LastCall.trigger]
    /\ pc # "iterating" => content_cache = <<>> /\ cache_size = 0

\* two objects have been flushed and the third, of non-zero size, is alone in
\* the cache
C14_Witness ==
    /\ JustFlushed
    /\ Len(yielded) = 3
    /\ LastCall.batch = <<yielded[1], yielded[2]>>
    /\ meta[yielded[1]] > 0
    /\ meta[yielded[2]] > 0
    /\ cache_size > 0

\* C15: whenever the loop stands between two triplets, and at the end of the
\* group, every batch submitted for the group is recorded: old_obj_hashkeys
\* is the batches of the group's calls laid end to end, new_obj_hashkeys is
\* as long, and holds at each place the hashkey returned for that object.
C15_NoFireAndForget ==
    LET submitted == Flatten(Batches(GroupCalls(Len(groups))))
    IN  /\ old_obj_hashkeys = submitted
        /\ Len(new_obj_hashkeys) = Len(submitted)
        /\ \A i \in 1..Len(submitted) :
              new_obj_hashkeys[i] = HashOf(Content(submitted[i], meta[submitted[i]]))

\* a flush is recorded, its trigger is in the cache, and the generator still
\* has a triplet to yield
C15_Witness ==
    /\ pc = "iterating"
    /\ triplets # {}
    /\ Len(yielded) = 2
    /\ Kinds(GroupCalls(Len(groups))) = {"flush"}
    /\ old_obj_hashkeys = <<yielded[1]>>
    /\ Len(new_obj_hashkeys) = 1

\* how many of the calls cs hold object o in their batch
TimesIn(cs, o) == Cardinality({i \in 1..Len(cs) : o \in Range(cs[i].batch)})
\* how many places of list hold o
Occurrences(list, o) == Cardinality({i \in 1..Len(list) : list[i] = o})

\* the current group has been processed to its end
GroupDone == pc = "idle" /\ groups # <<>>

\* C16: a group that has been opened is processed to its end, and the last
\* call made for it is the final flush; at that point the cache is empty,
\* cache_size is 0, every object of the group has been yielded and submitted
\* in exactly one batch, and old_obj_hashkeys and new_obj_hashkeys hold one
\* pair for each of them.
C16_GroupTerminates ==
    /\ (pc = "iterating") ~> GroupDone
    /\ [](GroupDone =>
            LET cs == GroupCalls(Len(groups))
            IN  /\ cs # <<>>
                /\ cs[Len(cs)].kind = "final"
                /\ content_cache = <<>>
                /\ cache_size = 0
                /\ triplets = {}
                /\ Range(yielded) = groups[Len(groups)]
                /\ Len(old_obj_hashkeys) = Len(yielded)
                /\ Len(new_obj_hashkeys) = Len(yielded)
                /\ \A o \in Range(yielded) :
                      /\ TimesIn(cs, o) = 1
                      /\ Occurrences(old_obj_hashkeys, o) = 1)

\* a group of three objects is at its end after a direct write, a flush and a
\* final flush that was not empty
C16_Witness ==
    /\ GroupDone
    /\ Len(yielded) = 3
    /\ Len(GroupCalls(Len(groups))) = 3
    /\ Kinds(GroupCalls(Len(groups))) = {"direct", "flush", "final"}
    /\ calls[Len(calls)].batch # <<>>

\* the sum of the sizes the source container declares for the objects of a batch
RECURSIVE DeclaredSize(_)
DeclaredSize(batch) ==
    IF batch = <<>> THEN 0 ELSE meta[Head(batch)] + DeclaredSize(Tail(batch))

\* C17: every batch of a flush-then-buffer step is non-empty and the declared
\* sizes of its objects sum to at most max_memory_usage; every batch of a
\* direct write holds exactly one object, of declared size above
\* max_memory_usage; an empty batch comes from a final flush only.
C17_BatchShape ==
    \A i \in 1..Len(calls) :
       LET c == calls[i]
       IN  /\ c.kind = "flush" =>
                 /\ Len(c.batch) >= 1
                 /\ DeclaredSize(c.batch) <= max_memory_usage
           /\ c.kind = "direct" =>
                 /\ Len(c.batch) = 1
                 /\ meta[c.batch[1]] > max_memory_usage
           /\ Len(c.batch) = 0 => c.kind = "final"

\* a flush that fills the budget exactly, a direct write and an empty final
\* flush have all been made
C17_Witness ==
    /\ \E i \in 1..Len(calls) :
          /\ calls[i].kind = "flush"
          /\ DeclaredSize(calls[i].batch) = max_memory_usage
    /\ \E i \in 1..Len(calls) : calls[i].kind = "direct"
    /\ \E i \in 1..Len(calls) : calls[i].kind = "final" /\ calls[i].batch = <<>>

\* C18: when a group's iteration starts the cache is empty and cache_size is
\* 0; every batch holds objects of the group it was submitted for only, and
\* the cache and cache_size hold and count objects of the current group only.
C18_CacheIsolation ==
    /\ (pc = "iterating" /\ yielded = <<>>) => (content_cache = <<>> /\ cache_size = 0)
    /\ \A i \in 1..Len(calls) : Range(calls[i].batch) \subseteq groups[calls[i].group]
    /\ content_cache # <<>> =>
          /\ Range(CacheKeys(content_cache)) \subseteq groups[Len(groups)]
          /\ Range(CacheKeys(content_cache)) \subseteq Range(yielded)
    /\ cache_size = DeclaredSize(CacheKeys(content_cache))

\* the first group ended with a final flush of buffered objects, and the
\* second group has buffered an object of its own
C18_Witness ==
    /\ pc = "iterating"
    /\ Len(groups) = 2
    /\ GroupCalls(1) # <<>>
    /\ GroupCalls(1)[Len(GroupCalls(1))].batch # <<>>
    /\ Len(content_cache) = 1
    /\ cache_size > 0

\* C19: once both exporters have run on the same groups, they have ended the
\* same way (both returned, or both raised the same exception), the mappings
\* they return are equal and their output containers hold the same objects,
\* for each budget.
C19_SameResult ==
    plain.pc # "idle" =>
        /\ plain.pc = pc
        /\ plain.err = err
        /\ plain.old_new_obj_hashkey_mapping = old_new_obj_hashkey_mapping
        /\ plain.output_container = output_container

\* both have returned after two groups, the second of two objects that the
\* grouped exporter wrote in one batch where the plain one made a call each
C19_Witness ==
    /\ plain.pc = "done"
    /\ pc = "done"
    /\ Len(groups) = 2
    /\ Cardinality(groups[1]) = 1
    /\ Len(GroupCalls(2)) = 1
    /\ Len(calls[Len(calls)].batch) = 2
    /\ plain.calls = 3
    /\ Len(calls) < plain.calls

====
